---------------------------- MODULE Spec2Model ----------------------------
(***************************************************************************)
(* ElementaryJS: the restriction and desugaring pass (src/ts/visitor.ts)   *)
(* and the safety runtime (src/ts/runtime.ts).                             *)
(*                                                                         *)
(* The syntax tree is a heap of nodes: a node is a record, its children    *)
(* are heap addresses, so that two parents can hold the same node object   *)
(* (the pass builds such trees) and a replacement writes one slot of one   *)
(* parent, as babel's path.replaceWith does.                               *)
(***************************************************************************)
EXTENDS Integers, Sequences, FiniteSets, TLC

VARIABLES
  \* the compilation (visitor.ts)
  src,        \* the parsed source program (a tree value, never changed)
  isOnline,   \* st.opts.isOnline
  heap,       \* the nodes of the tree being compiled
  root,       \* address of the Program node
  phase,      \* where the traversal of the Program node stands
  errors,     \* st.elem.errors
  outcome,    \* what the compilation ended with
  thrown,     \* the errors of the State object thrown, if one was
  internal,   \* the Error that left the traversal, if one did
  pass,       \* how many times the pass has been started on this tree
  input,      \* the tree the current run of the pass was started on
  generated,  \* the nodes the exit handlers have made, as they made them
  handled,    \* the nodes among them that a handler has then been run on
  \* one call into the runtime (runtime.ts)
  call,       \* the function called and its arguments
  result,     \* what the call returned or threw
  after,      \* the object argument as the call left it
  \* the module state of runtime.ts
  stopifyRunner,
  tests,
  testsEnabled,
  timeoutMilli,
  pending     \* the tests handed to the runner that have not completed

passVars == <<src, isOnline, heap, root, phase, errors, outcome, thrown,
              internal, pass, input, generated, handled>>
callVars == <<call, result, after>>
moduleVars == <<stopifyRunner, tests, testsEnabled, timeoutMilli, pending>>
vars == <<passVars, callVars, moduleVars>>

-----------------------------------------------------------------------------
(* Syntax trees.  kids lists the children in the order of babel-types'     *)
(* VISITOR_KEYS; line 0 stands for a node without loc (a generated node).  *)

N(t, s, f, l, k) == [type |-> t, str |-> s, flag |-> f, line |-> l, kids |-> k]

\* a source node (its line is set when the program is loaded)
T(t, s, f, k) == N(t, s, f, 1, k)

Id(name)            == T("Identifier", name, FALSE, <<>>)
Num(s)              == T("NumericLiteral", s, FALSE, <<>>)
Member(o, p)        == T("MemberExpression", "", FALSE, <<o, p>>)
Index(o, p)         == T("MemberExpression", "", TRUE, <<o, p>>)
Assign(op, l, r)    == T("AssignmentExpression", op, FALSE, <<l, r>>)
Binary(op, l, r)    == T("BinaryExpression", op, FALSE, <<l, r>>)
Update(op, pre, a)  == T("UpdateExpression", op, pre, <<a>>)
Unary(op, a)        == T("UnaryExpression", op, TRUE, <<a>>)
Call(f, args)       == T("CallExpression", "", FALSE, <<f>> \o args)
New(f, args)        == T("NewExpression", "", FALSE, <<f>> \o args)
ExprStmt(e)         == T("ExpressionStatement", "", FALSE, <<e>>)
Block(ss)           == T("BlockStatement", "", FALSE, ss)
Declarator(id, i)   == T("VariableDeclarator", "", FALSE, <<id>> \o i)
VarDecl(kind, ds)   == T("VariableDeclaration", kind, FALSE, ds)
Program(ss)         == T("Program", "", FALSE, ss)

FunctionTypes ==
  {"FunctionDeclaration", "FunctionExpression", "ArrowFunctionExpression",
   "ObjectMethod", "ClassMethod"}


-----------------------------------------------------------------------------
(* Loading a tree into the heap: children first, then the node itself.     *)

RECURSIVE Alloc(_, _, _)
RECURSIVE AllocKids(_, _, _, _)

\* [h, ids]: the trees ts added to h (all nodes on line l), and their addresses
AllocKids(h, ts, l, ids) ==
  IF Len(ids) = Len(ts) THEN [h |-> h, ids |-> ids]
  ELSE LET r == Alloc(h, ts[Len(ids) + 1], l)
       IN  AllocKids(r.h, ts, l, Append(ids, r.id))

\* [h, id]: tree t added to h; l is the line given to its nodes (0: none)
Alloc(h, t, l) ==
  LET r == AllocKids(h, t.kids, l, <<>>)
  IN  [h  |-> Append(r.h, N(t.type, t.str, t.flag, l, r.ids)),
       id |-> Len(r.h) + 1]

RECURSIVE AllocStmts(_, _, _)
\* the statements of a program, statement i on line i
AllocStmts(h, ss, ids) ==
  IF Len(ids) = Len(ss) THEN [h |-> h, ids |-> ids]
  ELSE LET r == Alloc(h, ss[Len(ids) + 1], Len(ids) + 1)
       IN  AllocStmts(r.h, ss, Append(ids, r.id))

\* the parser's result for source program p: [h, id]
Parse(p) ==
  LET r == AllocStmts(<<>>, p.kids, <<>>)
  IN  [h  |-> Append(r.h, N("Program", "", FALSE, 1, r.ids)),
       id |-> Len(r.h) + 1]

RECURSIVE Tree(_, _)
\* the tree below address id, as a value (lines dropped)
Tree(h, id) ==
  N(h[id].type, h[id].str, h[id].flag, 1,
    [i \in 1..Len(h[id].kids) |-> Tree(h, h[id].kids[i])])

-----------------------------------------------------------------------------
(* visitor.ts: constants and helpers                                       *)

generalOperators     == <<"==", "!=">>
numOrStringOperators == <<"+">>
numOperators ==
  <<"<=", ">=", "<", ">", "<<", ">>", ">>>", "-", "*", "/", "%", "&", "|", "^">>
allowedBinaryOperators ==
  generalOperators \o numOrStringOperators \o numOperators

\* Array.prototype.includes on a list of strings
Includes(list, x) == \E i \in 1..Len(list) : list[i] = x

\* The state a traversal threads through its handlers: the tree, st.elem.errors,
\* the Error that ended the traversal ("" while none has), the uid counter
\* of the program scope; and, of what the traversal has done, the nodes its
\* exit handlers have made and those of them a handler was run on.
TState(h, e, a, u) ==
  [heap |-> h, errors |-> e, abort |-> a, uid |-> u, generated |-> {}, handled |-> {}]

\* State.error(path, message): the line is read from the node's loc, and a node
\* without loc has none to read (a TypeError, which ends the traversal)
StateError(st, id, message) ==
  IF st.heap[id].line = 0
  THEN [st EXCEPT !.abort = "TypeError: Cannot read property 'start' of undefined"]
  ELSE [st EXCEPT !.errors =
          Append(@, [line |-> st.heap[id].line, message |-> message])]

\* a generated node (no loc)
G(t, s, f, k) == N(t, s, f, 0, k)

\* dynCheck(name, ...args): the nodes of the call rts.<name>(args), appended to
\* a heap of n nodes; the call itself is the last of them, at n + 4
dynCheck(n, name, args) ==
  << G("Identifier", "rts", FALSE, <<>>),
     G("Identifier", name, FALSE, <<>>),
     G("MemberExpression", "", FALSE, <<n + 1, n + 2>>),
     G("CallExpression", "", FALSE, <<n + 3>> \o args) >>

\* rtsExpression(st): its nodes, appended to a heap of n nodes; the expression
\* is the last of them
rtsExpression(n, online) ==
  IF online THEN << G("Identifier", "elementaryjs", FALSE, <<>>) >>
  ELSE << G("Identifier", "require", FALSE, <<>>),
          G("StringLiteral", "./runtime", FALSE, <<>>),
          G("CallExpression", "", FALSE, <<n + 1, n + 2>>) >>

\* unassign(op); "throw" stands for the default branch
unassign(op) ==
  CASE op = "+=" -> "+"
    [] op = "-=" -> "-"
    [] op = "*=" -> "*"
    [] op = "/=" -> "/"
    [] op = "%=" -> "%"
    [] OTHER     -> "throw"

\* enclosingScopeBlock(path): the address of the node whose kids are the
\* statement list, 0 when the function throws; fp is path.getFunctionParent()
enclosingScopeBlock(h, fp) ==
  IF h[fp].type = "Program" THEN fp
  ELSE IF h[fp].type \in {"FunctionExpression", "FunctionDeclaration", "ObjectMethod"}
  THEN h[fp].kids[1]
  ELSE 0

\* propertyAsString(node) for member expression m: the node it creates, if any
\* (appended to a heap of n nodes), and the address of its result
propertyAsStringNodes(h, m) ==
  IF h[m].flag THEN <<>>
  ELSE << G("StringLiteral", h[h[m].kids[2]].str, FALSE, <<>>) >>
propertyAsString(h, m, n) == IF h[m].flag THEN h[m].kids[2] ELSE n + 1

\* the identifiers of the tree: what a generated name must differ from
Names(h) == {h[i].str : i \in {j \in 1..Len(h) : h[j].type = "Identifier"}}

\* path.scope.generateUidIdentifier('tmp'): _tmp, _tmp2, _tmp3, ...
UidName(i) == IF i = 1 THEN "_tmp" ELSE "_tmp" \o ToString(i)

\* the number of the first free name after the u names generated so far
NextUid(h, u) ==
  CHOOSE i \in (u + 1)..(u + Len(h) + 1) :
    /\ UidName(i) \notin Names(h)
    /\ \A j \in (u + 1)..(i - 1) : UidName(j) \in Names(h)

\* path.replaceWith(node): the parent's slot now holds the new node
ReplaceWith(h, p, k, id) == [h EXCEPT ![p].kids[k] = id]

-----------------------------------------------------------------------------
(* The handlers of the visitor.  A handler is given the traversal state st, *)
(* the path (parent address p, slot k; the node is st.heap[p].kids[k]) and  *)
(* yields [st, skip, replaced]: skip when it called path.skip(), replaced   *)
(* when it called path.replaceWith().                                       *)

NodeAt(st, p, k) == st.heap[p].kids[k]
Result(st, skip, replaced) == [st |-> st, skip |-> skip, replaced |-> replaced]
Pass(st) == Result(st, FALSE, FALSE)
Throw(st, what) == Result([st EXCEPT !.abort = what], FALSE, FALSE)

\* the handler created the nodes (appended to the heap) and replaced the node
\* at the path by the one at address id
Replaced(st, p, k, nodes, id, skip) ==
  Result([st EXCEPT !.heap = ReplaceWith(@ \o nodes, p, k, id)], skip, TRUE)

VariableDeclarator(st, p, k) ==
  LET id == NodeAt(st, p, k)
  IN  IF st.heap[st.heap[id].kids[1]].type # "Identifier"
      THEN Pass(StateError(st, id, "Do not use destructuring patterns."))
      ELSE IF Len(st.heap[id].kids) < 2
      THEN Pass(StateError(st, id,
             "You must initialize the variable '"
               \o st.heap[st.heap[id].kids[1]].str \o "'."))
      ELSE Pass(st)

CallExpression(st, p, k) ==
  LET id == NodeAt(st, p, k)
  IN  IF /\ st.heap[st.heap[id].kids[1]].type = "Identifier"
         /\ st.heap[st.heap[id].kids[1]].str = "Array"
      THEN Pass(StateError(st, id,
             "You must use the 'new' keyword to create a new array."))
      ELSE Pass(st)

MemberExpressionExit(st, p, k) ==
  LET id   == NodeAt(st, p, k)
      n    == Len(st.heap)
      o    == st.heap[id].kids[1]
      prop == st.heap[id].kids[2]
  IN  IF \/ st.heap[p].type = "UpdateExpression" /\ st.heap[p].kids[1] = id
         \/ st.heap[p].type = "AssignmentExpression" /\ st.heap[p].kids[1] = id
      THEN Pass(st)
      ELSE IF st.heap[p].type = "CallExpression"
      THEN Pass(st)
      ELSE IF ~st.heap[id].flag
      THEN IF st.heap[prop].type # "Identifier"
           THEN Throw(st, "Error: ElementaryJS expected id. in MemberExpression")
           ELSE Replaced(st, p, k,
                  << G("StringLiteral", st.heap[prop].str, FALSE, <<>>) >>
                    \o dynCheck(n + 1, "dot", <<o, n + 1>>),
                  n + 5, TRUE)
      ELSE Replaced(st, p, k, dynCheck(n, "arrayBoundsCheck", <<o, prop>>),
                    n + 4, TRUE)

\* exp.x += rhs  =>  tmp = exp, tmp.x = tmp.x + rhs: the nodes made for it,
\* appended to a heap of n nodes: the identifier tmp at n + 1, the declaration
\* of tmp at n + 3, the sequence at n + 9
DesugarMember(h, id, n, name) ==
  LET left == h[id].kids[1]
  IN  << G("Identifier", name, FALSE, <<>>),
         G("VariableDeclarator", "", FALSE, <<n + 1>>),
         G("VariableDeclaration", "var", FALSE, <<n + 2>>),
         G("AssignmentExpression", "=", FALSE, <<n + 1, h[left].kids[1]>>),
         G("MemberExpression", "", h[left].flag, <<n + 1, h[left].kids[2]>>),
         G("MemberExpression", "", h[left].flag, <<n + 1, h[left].kids[2]>>),
         G("BinaryExpression", unassign(h[id].str), FALSE, <<n + 6, h[id].kids[2]>>),
         G("AssignmentExpression", "=", FALSE, <<n + 5, n + 7>>),
         G("SequenceExpression", "", FALSE, <<n + 4, n + 8>>) >>

\* fp: the address of path.getFunctionParent()
AssignmentExpressionEnter(st, p, k, fp) ==
  LET id    == NodeAt(st, p, k)
      n     == Len(st.heap)
      op    == st.heap[id].str
      left  == st.heap[id].kids[1]
      right == st.heap[id].kids[2]
      u     == NextUid(st.heap, st.uid)
      block == enclosingScopeBlock(st.heap, fp)
  IN  IF ~Includes(<<"=", "+=", "-=", "*=", "/=", "%=">>, op)
      THEN Result(StateError(st, id, "Do not use the '" \o op \o "' operator."),
                  TRUE, FALSE)
      ELSE IF st.heap[left].type \notin {"Identifier", "MemberExpression"}
      THEN Result(StateError(st, id, "Do not use patterns"), TRUE, FALSE)
      ELSE IF op = "="
      THEN Pass(st)
      ELSE IF st.heap[left].type = "Identifier"
      THEN Replaced(st, p, k,
             << G("BinaryExpression", unassign(op), FALSE, <<left, right>>),
                G("AssignmentExpression", "=", FALSE, <<left, n + 1>>) >>,
             n + 2, FALSE)
      ELSE IF block = 0
      THEN Throw([st EXCEPT !.uid = u], "Error: parent is a " \o st.heap[fp].type)
      ELSE Result([st EXCEPT
                     !.uid = u,
                     !.heap = [ReplaceWith(
                                 st.heap \o DesugarMember(st.heap, id, n, UidName(u)),
                                 p, k, n + 9)
                                 EXCEPT ![block].kids = Append(@, n + 3)]],
                  FALSE, TRUE)

AssignmentExpressionExit(st, p, k) ==
  LET id    == NodeAt(st, p, k)
      n     == Len(st.heap)
      left  == st.heap[id].kids[1]
      right == st.heap[id].kids[2]
  IN  IF st.heap[id].str # "="
      THEN Throw(st, "Error: desugaring error")
      ELSE IF st.heap[left].type \notin {"Identifier", "MemberExpression"}
      THEN Throw(st, "Error: syntactic check error")
      ELSE IF st.heap[left].type = "Identifier"
      THEN Pass(st)
      ELSE IF st.heap[left].flag
      THEN Replaced(st, p, k,
             dynCheck(n, "checkArray",
                      <<st.heap[left].kids[1], st.heap[left].kids[2], right>>),
             n + 4, TRUE)
      ELSE Replaced(st, p, k,
             propertyAsStringNodes(st.heap, left)
               \o dynCheck(n + 1, "checkMember",
                           <<st.heap[left].kids[1],
                             propertyAsString(st.heap, left, n), right>>),
             n + 5, TRUE)

BinaryExpressionEnter(st, p, k) ==
  LET id == NodeAt(st, p, k)
      op == st.heap[id].str
  IN  IF ~Includes(allowedBinaryOperators, op)
      THEN Result(StateError(st, id, "Do not use the '" \o op \o "' operator."),
                  TRUE, FALSE)
      ELSE IF Includes(generalOperators, op)
      THEN Pass([st EXCEPT !.heap[id].str =
                   CASE op = "==" -> "===" [] op = "!=" -> "!==" [] OTHER -> op])
      ELSE Pass(st)

\* BinaryExpression.exit without its numOperators branch
BinaryExpressionExitPlusOnly(st, p, k) ==
  LET id == NodeAt(st, p, k)
      n  == Len(st.heap)
      op == st.heap[id].str
  IN  IF Includes(numOrStringOperators, op)
      THEN Replaced(st, p, k,
             << G("StringLiteral", op, FALSE, <<>>) >>
               \o dynCheck(n + 1, "applyNumOrStringOp",
                           <<n + 1, st.heap[id].kids[1], st.heap[id].kids[2]>>),
             n + 5, TRUE)
      ELSE Pass(st)

BinaryExpressionExit(st, p, k) ==
  LET id == NodeAt(st, p, k)
      n  == Len(st.heap)
      op == st.heap[id].str
  IN  IF Includes(numOrStringOperators, op)
      THEN Replaced(st, p, k,
             << G("StringLiteral", op, FALSE, <<>>) >>
               \o dynCheck(n + 1, "applyNumOrStringOp",
                           <<n + 1, st.heap[id].kids[1], st.heap[id].kids[2]>>),
             n + 5, TRUE)
      ELSE IF Includes(numOperators, op)
      THEN Replaced(st, p, k,
             << G("StringLiteral", op, FALSE, <<>>) >>
               \o dynCheck(n + 1, "applyNumOp",
                           <<n + 1, st.heap[id].kids[1], st.heap[id].kids[2]>>),
             n + 5, TRUE)
      ELSE Pass(st)

UnaryExpression(st, p, k) ==
  LET id == NodeAt(st, p, k)
  IN  IF st.heap[id].str = "delete" \/ st.heap[id].str = "typeof"
      THEN Pass(StateError(st, id,
                  "Do not use the '" \o st.heap[id].str \o "' operator."))
      ELSE Pass(st)

\* the exit handler ends with the statement "path.skip;", which calls nothing
NewExpressionExit(st, p, k) ==
  LET id == NodeAt(st, p, k)
      n  == Len(st.heap)
  IN  IF /\ st.heap[st.heap[id].kids[1]].type = "Identifier"
         /\ st.heap[st.heap[id].kids[1]].str = "Array"
      THEN Replaced(st, p, k,
             << G("Identifier", "rts", FALSE, <<>>),
                G("Identifier", "SafeArray", FALSE, <<>>),
                G("MemberExpression", "", FALSE, <<n + 1, n + 2>>),
                G("NewExpression", "", FALSE, <<n + 3>> \o Tail(st.heap[id].kids)) >>,
             n + 4, FALSE)
      ELSE Pass(st)

UpdateExpressionEnter(st, p, k) ==
  LET id == NodeAt(st, p, k)
  IN  IF st.heap[id].flag = FALSE
      THEN Pass(StateError(st, id,
                  "Do not use post-increment or post-decrement operators."))
      ELSE Pass(st)

UpdateExpressionExit(st, p, k) ==
  LET id == NodeAt(st, p, k)
      n  == Len(st.heap)
      a  == st.heap[id].kids[1]
  IN  IF st.heap[a].type \notin {"Identifier", "MemberExpression"}
      THEN Throw(st, "Error: not an l-value in update expression")
      ELSE IF st.heap[a].type = "Identifier"
      THEN \* ++x ==> updateOnlyNumbers('++', x), ++x
           Replaced(st, p, k,
             << G("StringLiteral", st.heap[id].str, FALSE, <<>>) >>
               \o dynCheck(n + 1, "updateOnlyNumbers", <<n + 1, a>>)
               \o << G("SequenceExpression", "", FALSE, <<n + 5, id>>) >>,
             n + 6, TRUE)
      ELSE Replaced(st, p, k,
             << G("StringLiteral", st.heap[id].str, FALSE, <<>>) >>
               \o propertyAsStringNodes(st.heap, a)
               \o dynCheck(n + 1 + Len(propertyAsStringNodes(st.heap, a)),
                           "checkUpdateOperand",
                           <<n + 1, st.heap[a].kids[1],
                             propertyAsString(st.heap, a, n + 1)>>),
             n + 5 + Len(propertyAsStringNodes(st.heap, a)), TRUE)

\* ForStatement and WhileStatement: the body is the last child
LoopStatement(st, p, k) ==
  LET id == NodeAt(st, p, k)
  IN  IF st.heap[st.heap[id].kids[Len(st.heap[id].kids)]].type # "BlockStatement"
      THEN Pass(StateError(st, id, "Loop body must be enclosed in braces."))
      ELSE Pass(st)

VariableDeclaration(st, p, k) ==
  LET id == NodeAt(st, p, k)
  IN  IF st.heap[id].str # "let" /\ st.heap[id].str # "const"
      THEN Pass(StateError(st, id, "Use 'let' or 'const' to declare a variable."))
      ELSE Pass(st)

\* the statements the visitor rejects whatever they hold
Rejected(st, p, k) ==
  LET t == st.heap[NodeAt(st, p, k)].type
  IN  Pass(StateError(st, NodeAt(st, p, k),
        CASE t = "ThrowStatement"   -> "Do not use the 'throw' operator."
          [] t = "WithStatement"    -> "Do not use the 'with' statement."
          [] t = "SwitchStatement"  -> "Do not use the 'switch' statement."
          [] t = "LabeledStatement" -> "Do not use labels to alter control-flow"
          [] t = "ForOfStatement"   -> "Do not use for-of loops."
          [] t = "ForInStatement"   -> "Do not use for-in loops."))

RejectedTypes ==
  {"ThrowStatement", "WithStatement", "SwitchStatement", "LabeledStatement",
   "ForOfStatement", "ForInStatement"}

\* the visitor's enter handler for the node at the path (a handler given as a
\* plain function is an enter handler)
Enter(st, p, k, fp) ==
  LET t == st.heap[NodeAt(st, p, k)].type
  IN  CASE t = "VariableDeclarator"   -> VariableDeclarator(st, p, k)
        [] t = "CallExpression"       -> CallExpression(st, p, k)
        [] t = "AssignmentExpression" -> AssignmentExpressionEnter(st, p, k, fp)
        [] t = "BinaryExpression"     -> BinaryExpressionEnter(st, p, k)
        [] t = "UnaryExpression"      -> UnaryExpression(st, p, k)
        [] t = "UpdateExpression"     -> UpdateExpressionEnter(st, p, k)
        [] t \in {"ForStatement", "WhileStatement"} -> LoopStatement(st, p, k)
        [] t = "VariableDeclaration"  -> VariableDeclaration(st, p, k)
        [] t \in RejectedTypes        -> Rejected(st, p, k)
        [] OTHER                      -> Pass(st)

\* the visitor's exit handler for the node at the path
Exit(st, p, k) ==
  LET t == st.heap[NodeAt(st, p, k)].type
  IN  CASE t = "MemberExpression"     -> MemberExpressionExit(st, p, k)
        [] t = "AssignmentExpression" -> AssignmentExpressionExit(st, p, k)
        [] t = "BinaryExpression"     -> BinaryExpressionExit(st, p, k)
        [] t = "NewExpression"        -> NewExpressionExit(st, p, k)
        [] t = "UpdateExpression"     -> UpdateExpressionExit(st, p, k)
        [] OTHER                      -> Pass(st)

-----------------------------------------------------------------------------
(* The traversal engine (babel-traverse), as far as the visitor relies on   *)
(* it: enter, the children in order, exit; a handler that replaced the node *)
(* requeues the path, which is visited again unless the handler also        *)
(* called path.skip(); a thrown Error ends everything.                      *)

RECURSIVE Visit(_, _, _, _)
RECURSIVE VisitKids(_, _, _, _, _)
RECURSIVE AfterEnter(_, _, _, _)
RECURSIVE AfterKids(_, _, _, _)
RECURSIVE AfterExit(_, _, _, _)

\* the children of node id from slot k to slot n (the queue is built from the
\* children the node has when its traversal starts)
VisitKids(st, id, k, n, fp) ==
  IF k > n \/ st.abort # "" THEN st
  ELSE VisitKids(Visit(st, id, k, fp), id, k + 1, n, fp)

\* x: what the exit handler yielded
AfterExit(x, p, k, fp) ==
  IF x.st.abort = "" /\ x.replaced /\ ~x.skip
  THEN Visit(x.st, p, k, fp)
  ELSE x.st

\* x: what the exit handler yielded on a heap of n nodes; the nodes it made
\* for a replacement are noted as it made them
Made(x, n) ==
  IF ~x.replaced THEN x
  ELSE [x EXCEPT !.st.generated =
          @ \cup {[id |-> a, node |-> x.st.heap[a]] : a \in (n + 1)..Len(x.st.heap)}]

\* c: the traversal state after the children
AfterKids(c, p, k, fp) ==
  IF c.abort # "" THEN c
  ELSE AfterExit(Made(Exit(c, p, k), Len(c.heap)), p, k, fp)

\* e: what the enter handler yielded
AfterEnter(e, p, k, fp) ==
  IF e.st.abort # "" THEN e.st
  ELSE IF e.replaced THEN Visit(e.st, p, k, fp)
  ELSE IF e.skip THEN e.st
  ELSE AfterKids(
         VisitKids(e.st, NodeAt(e.st, p, k), 1,
                   Len(e.st.heap[NodeAt(e.st, p, k)].kids),
                   IF e.st.heap[NodeAt(e.st, p, k)].type \in FunctionTypes
                   THEN NodeAt(e.st, p, k) ELSE fp),
         p, k, fp)

\* the node types the visitor has a handler for
HandlerTypes ==
  {"VariableDeclarator", "CallExpression", "MemberExpression",
   "AssignmentExpression", "BinaryExpression", "UnaryExpression", "NewExpression",
   "UpdateExpression", "ForStatement", "WhileStatement", "VariableDeclaration"}
    \cup RejectedTypes

\* the handlers are about to be run on the node at the path: noted when the
\* node is one an exit handler made
Met(st, p, k) ==
  IF /\ st.heap[NodeAt(st, p, k)].type \in HandlerTypes
     /\ \E g \in st.generated : g.id = NodeAt(st, p, k)
  THEN [st EXCEPT !.handled = @ \cup {NodeAt(st, p, k)}]
  ELSE st

\* path.visit() for the path (p, k)
Visit(st, p, k, fp) ==
  IF st.abort # "" THEN st ELSE AfterEnter(Enter(Met(st, p, k), p, k, fp), p, k, fp)


-----------------------------------------------------------------------------
(* The source programs the pass is run on.                                  *)

MaxNest   == 1     \* how deep a construct is nested in enclosing expressions
MaxStmts  == 2     \* statements of a program built from StmtPool
MaxPasses == 2     \* how many times the pass is run over one tree

X   == Id("x")
O   == Id("o")
One == Num("1")
OP  == Member(O, Id("p"))          \* o.p
OX  == Index(O, X)                 \* o[x]
FP  == Member(Call(Id("f"), <<>>), Id("p"))   \* f().p

BinaryOps ==
  {"==", "!=", "+", "<=", ">=", "<", ">", "<<", ">>", ">>>", "-", "*", "/", "%",
   "&", "|", "^", "===", "!==", "in", "instanceof", "**"}
AssignOps == {"=", "+=", "-=", "*=", "/=", "%=", "<<="}

BinaryCores == {Binary(op, X, One) : op \in BinaryOps}
UpdateCores ==
  {Update(op, pre, a) : op \in {"++", "--"}, pre \in BOOLEAN, a \in {X, OP, OX}}
AssignCores ==
  {Assign(op, l, One) : op \in AssignOps, l \in {X, FP, OX}}
    \cup {Assign("=", T("ArrayPattern", "", FALSE, <<X>>), O)}
OtherCores ==
  { OP, OX,
    New(Id("Array"), <<One>>), New(Id("Array"), <<Num("3"), Num("0")>>),
    New(Id("Foo"), <<>>), Call(Id("Array"), <<One>>),
    Call(Id("f"), <<X>>), Call(Id("f"), <<OP>>), Call(Id("f"), <<OX>>),
    Call(Member(O, Id("m")), <<One>>),
    Unary("typeof", X), Unary("delete", OP), Unary("-", X) }
Cores == BinaryCores \cup UpdateCores \cup AssignCores \cup OtherCores

\* e inside one enclosing expression
Wrap(c, e) ==
  CASE c = "index"   -> Index(O, e)                          \* o[e]
    [] c = "arg"     -> Call(Id("f"), <<e>>)                 \* f(e)
    [] c = "operand" -> Binary("-", e, One)                  \* e - 1
    [] c = "target"  -> Assign("+=", Index(O, e), One)       \* o[e] += 1
    [] c = "new"     -> New(Id("Array"), <<e, Num("0")>>)    \* new Array(e, 0)
    [] c = "update"  -> Update("++", TRUE, Index(O, e))      \* ++o[e]
    [] c = "rhs"     -> Assign("=", OP, e)                   \* o.p = e
Wrappers == {"index", "arg", "operand", "target", "new", "update", "rhs"}

RECURSIVE Nested(_)
\* the cores inside at most n enclosing expressions
Nested(n) ==
  IF n = 0 THEN Cores
  ELSE Nested(n - 1) \cup {Wrap(c, e) : c \in Wrappers, e \in Nested(n - 1)}

Fn(t, body) == T(t, "", FALSE, <<body>>)
Let(name, init) == VarDecl("let", <<Declarator(Id(name), <<init>>)>>)

\* statement s inside a function of each kind
InScope(k, s) ==
  CASE k = "FunctionDeclaration" -> Fn("FunctionDeclaration", Block(<<s>>))
    [] k = "FunctionExpression"  -> Let("g", Fn("FunctionExpression", Block(<<s>>)))
    [] k = "ObjectMethod" ->
         Let("obj", T("ObjectExpression", "", FALSE, <<Fn("ObjectMethod", Block(<<s>>))>>))
    [] k = "ArrowFunctionExpression" ->
         Let("h", Fn("ArrowFunctionExpression", Block(<<s>>)))
    [] k = "ClassMethod" ->
         T("ClassDeclaration", "C", FALSE,
           <<T("ClassBody", "", FALSE, <<Fn("ClassMethod", Block(<<s>>))>>)>>)
    [] k = "ArrowInFunction" ->
         Fn("FunctionDeclaration",
            Block(<<Let("h", Fn("ArrowFunctionExpression", Block(<<s>>)))>>))
    [] k = "FunctionInArrow" ->
         Let("h", Fn("ArrowFunctionExpression",
                     Block(<<Fn("FunctionDeclaration", Block(<<s>>))>>)))
Scopes ==
  {"FunctionDeclaration", "FunctionExpression", "ObjectMethod",
   "ArrowFunctionExpression", "ClassMethod", "ArrowInFunction", "FunctionInArrow"}

PostX == ExprStmt(Update("++", FALSE, X))      \* x++;

\* statements the statement rules are about
StmtCores ==
  { VarDecl("let", <<Declarator(Id("y"), <<>>)>>),
    VarDecl("var", <<Declarator(Id("y"), <<One>>)>>),
    VarDecl("var", <<Declarator(Id("y"), <<>>)>>),
    VarDecl("const", <<Declarator(T("ArrayPattern", "", FALSE, <<X>>), <<O>>)>>),
    Let("y", Binary("+", X, One)),
    T("WhileStatement", "", FALSE, <<X, PostX>>),
    T("WhileStatement", "", FALSE, <<X, Block(<<PostX>>)>>),
    T("ForStatement", "", FALSE, <<Let("i", One), Binary("<", Id("i"), X),
                                   Update("++", TRUE, Id("i")), ExprStmt(OP)>>),
    T("ForStatement", "", FALSE, <<Let("i", One), Binary("<", Id("i"), X),
                                   Update("++", TRUE, Id("i")), Block(<<ExprStmt(OP)>>)>>),
    T("ThrowStatement", "", FALSE, <<Binary("in", X, O)>>),
    T("WithStatement", "", FALSE, <<O, PostX>>),
    T("SwitchStatement", "", FALSE,
      <<One, T("SwitchCase", "", FALSE, <<One, T("BreakStatement", "", FALSE, <<>>)>>)>>),
    T("LabeledStatement", "", FALSE, <<Id("l"), PostX>>),
    T("ForOfStatement", "", FALSE, <<VarDecl("var", <<Declarator(Id("y"), <<>>)>>), O,
                                     Block(<<>>)>>),
    T("ForInStatement", "", FALSE, <<VarDecl("let", <<Declarator(Id("y"), <<>>)>>), O,
                                     ExprStmt(X)>>) }

\* the statements of the programs with several statements
StmtPool ==
  { PostX,
    ExprStmt(Assign("+=", OP, One)),
    ExprStmt(Binary("==", X, One)),
    VarDecl("var", <<Declarator(Id("y"), <<>>)>>),
    Let("h", Fn("ArrowFunctionExpression", Block(<<ExprStmt(Assign("-=", OX, One))>>))),
    ExprStmt(Update("--", TRUE, OP)) }

\* statements that follow the declaration "let x;"
LetX    == VarDecl("let", <<Declarator(X, <<>>)>>)          \* let x;
AssignX == ExprStmt(Assign("=", X, One))                    \* x = 1;
ReadX   == ExprStmt(X)                                      \* x;
FlowPool ==
  { AssignX, ReadX,
    Block(<<AssignX, ReadX>>),                              \* { x = 1; x; }
    Block(<<Let("x", One), ReadX>>),                        \* { let x = 1; x; }
    T("WhileStatement", "", FALSE, <<Id("c"), Block(<<AssignX>>)>>),
    T("ForStatement", "", FALSE,
      <<Assign("=", X, One), Id("c"), Update("++", TRUE, X), Block(<<>>)>>),
    T("DoWhileStatement", "", FALSE, <<Id("c"), Block(<<AssignX>>)>>),
    Fn("FunctionDeclaration", Block(<<AssignX>>)) }

RECURSIVE Seqs(_, _)
\* the sequences over S of length n
Seqs(S, n) ==
  IF n = 0 THEN {<<>>}
  ELSE {Append(q, s) : q \in Seqs(S, n - 1), s \in S}

Programs ==
  {Program(<<>>)}
    \cup {Program(<<ExprStmt(e)>>) : e \in Nested(MaxNest)}
    \cup {Program(<<InScope(k, ExprStmt(e))>>) : k \in Scopes, e \in Cores}
    \cup {Program(<<s>>) : s \in StmtCores}
    \cup UNION {{Program(q) : q \in Seqs(StmtPool, n)} : n \in 2..MaxStmts}
    \cup UNION {{Program(<<LetX>> \o q) : q \in Seqs(FlowPool, n)} : n \in 0..MaxStmts}

-----------------------------------------------------------------------------
(* The state as the modules leave it when loaded.                          *)

\* let timeoutMilli: number = 3000
InitialTimeout == 3000

\* runtime.ts:263-280
ModuleLoaded ==
  /\ stopifyRunner = "undefined"
  /\ tests = <<>>
  /\ testsEnabled = FALSE
  /\ timeoutMilli = InitialTimeout
  /\ pending = <<>>

\* no call into the runtime has been made
NoCall ==
  /\ call = <<>>
  /\ result = <<>>
  /\ after = <<>>

\* no program is being compiled
NoCompilation ==
  /\ src = Program(<<>>)
  /\ isOnline = FALSE
  /\ heap = <<>>
  /\ root = 0
  /\ phase = "none"
  /\ errors = <<>>
  /\ outcome = "none"
  /\ thrown = <<>>
  /\ internal = ""
  /\ pass = 0
  /\ input = Program(<<>>)
  /\ generated = {}
  /\ handled = {}

-----------------------------------------------------------------------------
(* Running the pass: babel visits the Program node, whose handlers frame   *)
(* the traversal of the body.                                               *)

InitPass ==
  /\ src \in Programs
  /\ isOnline \in BOOLEAN
  /\ heap = Parse(src).h
  /\ root = Parse(src).id
  /\ phase = "parsed"
  /\ errors = <<>>
  /\ outcome = "none"
  /\ thrown = <<>>
  /\ internal = ""
  /\ pass = 1
  /\ input = src
  /\ generated = {}
  /\ handled = {}
  /\ NoCall
  /\ ModuleLoaded

\* Program.enter
ProgramEnter ==
  /\ phase = "parsed"
  /\ errors' = <<>>
  /\ phase' = "entered"
  /\ UNCHANGED <<src, isOnline, heap, root, outcome, thrown, internal, pass, input>>
  /\ UNCHANGED <<generated, handled, callVars, moduleVars>>

\* the traversal of the Program's body; an Error thrown by a handler leaves
\* the traversal and the compilation
Traversed(st) ==
  /\ heap' = st.heap
  /\ errors' = st.errors
  /\ internal' = st.abort
  /\ generated' = st.generated
  /\ handled' = st.handled
  /\ IF st.abort # ""
     THEN phase' = "done" /\ outcome' = "internal"
     ELSE phase' = "visited" /\ outcome' = outcome

Traverse ==
  /\ phase = "entered"
  /\ Traversed(VisitKids(TState(heap, errors, "", 0), root, 1,
                         Len(heap[root].kids), root))
  /\ UNCHANGED <<src, isOnline, root, thrown, pass, input>>
  /\ UNCHANGED <<callVars, moduleVars>>

\* the declaration "var rts = <loader>" that Program.exit inserts, appended
\* to a heap of n nodes; the declaration is the last of them
RtsDeclaration(n, online) ==
  rtsExpression(n, online)
    \o << G("Identifier", "rts", FALSE, <<>>),
          G("VariableDeclarator", "", FALSE,
            << n + Len(rtsExpression(n, online)) + 1,
               n + Len(rtsExpression(n, online)) >>),
          G("VariableDeclaration", "var", FALSE,
            << n + Len(rtsExpression(n, online)) + 2 >>) >>

\* Program.exit
ProgramExit ==
  /\ phase = "visited"
  /\ IF Len(heap[root].kids) # 0
     THEN heap' = [heap \o RtsDeclaration(Len(heap), isOnline)
                     EXCEPT ![root].kids =
                       << Len(heap) + Len(RtsDeclaration(Len(heap), isOnline)) >> \o @]
     ELSE heap' = heap
  /\ phase' = "done"
  /\ IF Len(errors) > 0
     THEN outcome' = "error" /\ thrown' = errors
     ELSE outcome' = "ok" /\ thrown' = thrown
  /\ UNCHANGED <<src, isOnline, root, errors, internal, pass, input>>
  /\ UNCHANGED <<generated, handled, callVars, moduleVars>>

\* The pass is run again on what a successful compile produced: on the tree
\* object itself, or on the tree parsed from its generated code.
Rerun ==
  /\ phase = "done"
  /\ outcome = "ok"
  /\ pass < MaxPasses
  /\ \E reparsed \in BOOLEAN :
       /\ heap' = IF reparsed THEN Parse(Tree(heap, root)).h ELSE heap
       /\ root' = IF reparsed THEN Parse(Tree(heap, root)).id ELSE root
  /\ input' = Tree(heap, root)
  /\ phase' = "parsed"
  /\ outcome' = "none"
  /\ pass' = pass + 1
  /\ generated' = {}
  /\ handled' = {}
  /\ UNCHANGED <<src, isOnline, errors, thrown, internal>>
  /\ UNCHANGED <<callVars, moduleVars>>

NextPass == ProgramEnter \/ Traverse \/ ProgramExit \/ Rerun
SpecPass == InitPass /\ [][NextPass]_vars

-----------------------------------------------------------------------------
(* What a tree contains.                                                    *)

RECURSIVE Count(_, _, _)
RECURSIVE CountKids(_, _, _, _)
\* how many nodes of tree t have type ty and a str among ss
CountKids(ks, i, ty, ss) ==
  IF i > Len(ks) THEN 0
  ELSE Count(ks[i], ty, ss) + CountKids(ks, i + 1, ty, ss)
Count(t, ty, ss) ==
  (IF t.type = ty /\ t.str \in ss THEN 1 ELSE 0) + CountKids(t.kids, 1, ty, ss)

\* t is the call rts.<name>('<op>', ...)
IsRtsCall(t, name, op) ==
  /\ t.type = "CallExpression"
  /\ Len(t.kids) >= 2
  /\ t.kids[1].type = "MemberExpression"
  /\ t.kids[1].kids[1] = Id("rts")
  /\ t.kids[1].kids[2] = Id(name)
  /\ t.kids[2].type = "StringLiteral"
  /\ t.kids[2].str = op

RECURSIVE CountCalls(_, _, _)
RECURSIVE CountCallsKids(_, _, _, _)
\* how many calls rts.<name>('<op>', ...) tree t holds
CountCallsKids(ks, i, name, op) ==
  IF i > Len(ks) THEN 0
  ELSE CountCalls(ks[i], name, op) + CountCallsKids(ks, i + 1, name, op)
CountCalls(t, name, op) ==
  (IF IsRtsCall(t, name, op) THEN 1 ELSE 0) + CountCallsKids(t.kids, 1, name, op)

RECURSIVE Occurrences(_, _)
RECURSIVE OccurrencesKids(_, _, _)
\* how many times the expression e occurs in tree t
OccurrencesKids(ks, i, e) ==
  IF i > Len(ks) THEN 0
  ELSE Occurrences(ks[i], e) + OccurrencesKids(ks, i + 1, e)
Occurrences(t, e) ==
  (IF t = e THEN 1 ELSE 0) + OccurrencesKids(t.kids, 1, e)

RECURSIVE HasCompoundMember(_)
\* t holds a compound assignment to a member expression
HasCompoundMember(t) ==
  \/ /\ t.type = "AssignmentExpression"
     /\ t.str \in {"+=", "-=", "*=", "/=", "%="}
     /\ t.kids[1].type = "MemberExpression"
  \/ \E i \in 1..Len(t.kids) : HasCompoundMember(t.kids[i])

RECURSIVE HasCompoundOn(_, _)
\* t holds a compound assignment to a member, named or indexed by an
\* identifier, of the object expression e
HasCompoundOn(t, e) ==
  \/ /\ t.type = "AssignmentExpression"
     /\ t.str \in {"+=", "-=", "*=", "/=", "%="}
     /\ t.kids[1].type = "MemberExpression"
     /\ t.kids[1].kids[1] = e
     /\ t.kids[1].kids[2].type = "Identifier"
  \/ \E i \in 1..Len(t.kids) : HasCompoundOn(t.kids[i], e)

RECURSIVE HasPostfix(_)
\* t holds a postfix ++ or --
HasPostfix(t) ==
  \/ t.type = "UpdateExpression" /\ ~t.flag
  \/ \E i \in 1..Len(t.kids) : HasPostfix(t.kids[i])

\* the tree the pass has produced
Out == Tree(heap, root)

SetOf(list) == {list[i] : i \in 1..Len(list)}

-----------------------------------------------------------------------------
(* Properties of the pass                                                   *)

\* C1: the pass does not abort before Program exit: whenever a compilation is
\* over, the State object holding every diagnostic recorded, in traversal
\* order, has been thrown if and only if at least one diagnostic was recorded.
C1_DecisionAtProgramExit ==
  phase = "done" =>
    /\ Len(errors) > 0 => outcome = "error" /\ thrown = errors
    /\ Len(errors) = 0 => outcome # "error"

\* C2: after a successful compile no == or != and no other allowlisted binary
\* operator is left as a native operator: each == and != of the program has
\* become === and !==, and each other operator a call of applyNumOrStringOp
\* ('+') or applyNumOp (the rest) with the operator as first argument.
C2_OperatorsRewritten ==
  (phase = "done" /\ outcome = "ok") =>
    /\ Count(Out, "BinaryExpression", SetOf(allowedBinaryOperators)) = 0
    /\ Count(Out, "BinaryExpression", {"==="}) = Count(input, "BinaryExpression", {"=="})
    /\ Count(Out, "BinaryExpression", {"!=="}) = Count(input, "BinaryExpression", {"!="})
    /\ \A op \in SetOf(numOrStringOperators) :
         CountCalls(Out, "applyNumOrStringOp", op)
           >= Count(input, "BinaryExpression", {op})
    /\ \A op \in SetOf(numOperators) :
         CountCalls(Out, "applyNumOp", op) >= Count(input, "BinaryExpression", {op})

\* a successful compile of a program with an ==, a native '-' and a native '+'
C2_Witness ==
  /\ phase = "done" /\ outcome = "ok"
  /\ Count(input, "BinaryExpression", {"=="}) > 0
  /\ Count(input, "BinaryExpression", {"-"}) > 0
  /\ Count(Out, "BinaryExpression", {"==="}) > 0
  /\ CountCalls(Out, "applyNumOp", "-") > 0

\* C3: a compound assignment to a member expression is desugared without an
\* internal failure in whatever scope it stands, and the object expression of
\* its target, written once in the program, occurs once in the rewritten tree.
C3_CompoundMemberDesugared ==
  (phase = "done" /\ HasCompoundMember(input)) =>
    /\ internal = ""
    /\ outcome = "ok" =>
         \A e \in {O, Call(Id("f"), <<>>)} :
           (HasCompoundOn(input, e) /\ Occurrences(input, e) = 1)
             => Occurrences(Out, e) = 1

\* C4 (its sentence on compilation): a program that holds a postfix ++ or --
\* fails to compile with a diagnostic.
C4_PostfixDiagnosed ==
  (phase = "done" /\ HasPostfix(input)) => (outcome = "error" /\ Len(thrown) > 0)

\* C10: running the pass again on what a successful compile produced records
\* no diagnostic and leaves the tree as it was.
C10_RerunChangesNothing ==
  (phase = "done" /\ pass > 1) =>
    /\ outcome = "ok"
    /\ Len(errors) = 0
    /\ Out = input

\* t is a call rts.<name>(...)
IsCheck(t, name) ==
  /\ t.type = "CallExpression"
  /\ t.kids[1] = Member(Id("rts"), Id(name))

RECURSIVE CountChecks(_, _)
RECURSIVE CountChecksKids(_, _, _)
\* how many calls rts.<name>(...) tree t holds
CountChecksKids(ks, i, name) ==
  IF i > Len(ks) THEN 0
  ELSE CountChecks(ks[i], name) + CountChecksKids(ks, i + 1, name)
CountChecks(t, name) ==
  (IF IsCheck(t, name) THEN 1 ELSE 0) + CountChecksKids(t.kids, 1, name)

\* child i of t is the target of an assignment, the argument of an update
\* expression or the callee of a call
Deferred(t, i) ==
  i = 1 /\ t.type \in {"AssignmentExpression", "UpdateExpression", "CallExpression"}

RECURSIVE Reads(_, _)
RECURSIVE ReadsKids(_, _, _)
\* how many member accesses (computed or static) tree t holds that are in
\* none of these three places
ReadsKids(t, i, computed) ==
  IF i > Len(t.kids) THEN 0
  ELSE (IF /\ t.kids[i].type = "MemberExpression"
           /\ t.kids[i].flag = computed
           /\ ~Deferred(t, i)
        THEN 1 ELSE 0)
       + Reads(t.kids[i], computed) + ReadsKids(t, i + 1, computed)
Reads(t, computed) == ReadsKids(t, 1, computed)

\* C15: within one traversal no handler is run on a node that an exit
\* handler has made, and no such node is rewritten: each is, when the
\* traversal is over, as the exit handler made it.
C15_GeneratedNodesLeftAlone ==
  phase \in {"visited", "done"} =>
    /\ handled = {}
    /\ \A g \in generated : heap[g.id] = g.node

\* C13: after a successful compile no member access is left outside the
\* target of an assignment, the argument of an update and the callee of a
\* call: each such access of the program has become a call of rts.dot
\* (static) or rts.arrayBoundsCheck (computed), an access that is an argument
\* of a call included.
C13_MemberReadsInstrumented ==
  (phase = "done" /\ outcome = "ok" /\ pass = 1) =>
    /\ Reads(Out, FALSE) = 0
    /\ Reads(Out, TRUE) = 0
    /\ CountChecks(Out, "dot") >= Reads(input, FALSE)
    /\ CountChecks(Out, "arrayBoundsCheck") >= Reads(input, TRUE)

\* The flow of the binding x of "let x;" through a tree, as the claim words
\* it: f.assigned when x has been assigned on the way, f.bad when x was read
\* before that.
RECURSIVE Flow(_, _)
RECURSIVE FlowKids(_, _, _)
FlowKids(ks, i, f) ==
  IF i > Len(ks) THEN f ELSE FlowKids(ks, i + 1, Flow(ks[i], f))

\* block or loop header t declares an x of its own
Shadows(t) ==
  \E i \in 1..Len(t.kids) :
    /\ t.kids[i].type = "VariableDeclaration"
    /\ \E j \in 1..Len(t.kids[i].kids) : t.kids[i].kids[j].kids[1] = X

\* what is met inside t is judged, what is assigned inside is forgotten
Inside(t, f) == [assigned |-> f.assigned, bad |-> FlowKids(t.kids, 1, f).bad]

Flow(t, f) ==
  IF t = X THEN [assigned |-> f.assigned, bad |-> f.bad \/ ~f.assigned]
  ELSE IF t.type = "AssignmentExpression" /\ t.kids[1] = X
  THEN [assigned |-> TRUE,
        bad |-> Flow(t.kids[2], f).bad \/ (t.str # "=" /\ ~f.assigned)]
  ELSE IF t.type = "VariableDeclarator" THEN FlowKids(Tail(t.kids), 1, f)
  ELSE IF t.type \in {"BlockStatement", "ForStatement"} /\ Shadows(t) THEN f
  ELSE IF t.type = "ForStatement"
  THEN [assigned |-> FlowKids(SubSeq(t.kids, 1, 2), 1, f).assigned,
        bad |-> FlowKids(<<t.kids[1], t.kids[2], t.kids[4], t.kids[3]>>, 1, f).bad]
  ELSE IF t.type = "WhileStatement" \/ t.type \in FunctionTypes THEN Inside(t, f)
  ELSE IF t.type = "DoWhileStatement" THEN FlowKids(<<t.kids[2], t.kids[1]>>, 1, f)
  ELSE FlowKids(t.kids, 1, f)

\* every read of x in program t follows an assignment to it
AssignedBeforeUse(t) == ~Flow(t, [assigned |-> FALSE, bad |-> FALSE]).bad

\* C12: a program that starts with "let x;" compiles if and only if every
\* read of x follows an assignment to that binding in the enclosing flow;
\* otherwise the diagnostics thrown include "You must initialize the variable
\* 'x' before use."
C12_UninitializedLet ==
  (phase = "done" /\ pass = 1 /\ Len(input.kids) > 0 /\ input.kids[1] = LetX) =>
    IF AssignedBeforeUse(input)
    THEN outcome = "ok"
    ELSE /\ outcome = "error"
         /\ \E i \in 1..Len(thrown) :
              thrown[i].message = "You must initialize the variable 'x' before use."

-----------------------------------------------------------------------------
(* runtime.ts: JavaScript values.                                           *)
(*                                                                          *)
(* A number is n/d + hi * 2^31 with d > 0 and n/d in lowest terms; d = 0 is *)
(* NaN (n = 0), Infinity (n = 1) and -Infinity (n = -1).  hi # 0 only for   *)
(* integers of magnitude 2^31 and more, which are arguments and results but *)
(* never operands of the arithmetic below.  -0 is not told from 0 (no       *)
(* operator here divides by a computed zero).                               *)

NumberV(n, d, hi) == [t |-> "number", n |-> n, d |-> d, hi |-> hi]
IntV(n)      == NumberV(n, 1, 0)
NaN          == NumberV(0, 0, 0)
Infinity     == NumberV(1, 0, 0)
Str(s)       == [t |-> "string", s |-> s]
Bool(b)      == [t |-> "boolean", b |-> b]
Undefined    == [t |-> "undefined"]
Null         == [t |-> "null"]
Hole         == [t |-> "hole"]              \* an array slot never assigned
Arr(slots)   == [t |-> "array", slots |-> slots]
Obj(props)   == [t |-> "object", props |-> props]

typeof(v) == IF v.t \in {"null", "array", "object"} THEN "object" ELSE v.t

IsNaN(a) == a.d = 0 /\ a.n = 0
Abs(n)   == IF n < 0 THEN -n ELSE n
Sign(n)  == IF n > 0 THEN 1 ELSE IF n < 0 THEN -1 ELSE 0

RECURSIVE GCD(_, _)
GCD(a, b) == IF b = 0 THEN a ELSE GCD(b, a % b)

\* n/d (d > 0) in lowest terms
Normalize(n, d) == NumberV(n \div GCD(Abs(n), d), d \div GCD(Abs(n), d), 0)

Neg(a) == [a EXCEPT !.n = -a.n]

Add(a, b) ==
  IF IsNaN(a) \/ IsNaN(b) THEN NaN
  ELSE IF a.d = 0 /\ b.d = 0 THEN (IF a.n = b.n THEN a ELSE NaN)
  ELSE IF a.d = 0 THEN a
  ELSE IF b.d = 0 THEN b
  ELSE Normalize(a.n * b.d + b.n * a.d, a.d * b.d)

Sub(a, b) == Add(a, Neg(b))

Mul(a, b) ==
  IF IsNaN(a) \/ IsNaN(b) THEN NaN
  ELSE IF a.d = 0 \/ b.d = 0
  THEN NumberV(Sign(a.n) * Sign(b.n), 0, 0)         \* Infinity * 0 is NaN
  ELSE Normalize(a.n * b.n, a.d * b.d)

Div(a, b) ==
  IF IsNaN(a) \/ IsNaN(b) \/ (a.d = 0 /\ b.d = 0) THEN NaN
  ELSE IF a.d = 0 THEN NumberV(IF b.n < 0 THEN -a.n ELSE a.n, 0, 0)
  ELSE IF b.d = 0 THEN IntV(0)
  ELSE IF b.n = 0 THEN NumberV(Sign(a.n), 0, 0)     \* 0 / 0 is NaN
  ELSE Normalize(a.n * b.d * Sign(b.n), a.d * Abs(b.n))

\* a % b: the remainder has the sign of the dividend
Rem(a, b) ==
  IF IsNaN(a) \/ IsNaN(b) \/ a.d = 0 THEN NaN
  ELSE IF b.d = 0 THEN a
  ELSE IF b.n = 0 THEN NaN
  ELSE Normalize(Sign(a.n) * ((Abs(a.n) * b.d) % (Abs(b.n) * a.d)), a.d * b.d)

Lt(a, b) ==
  IF IsNaN(a) \/ IsNaN(b) THEN FALSE
  ELSE IF a.d = 0 \/ b.d = 0
  THEN (a.d = 0 /\ a.n < 0 /\ b # a) \/ (b.d = 0 /\ b.n > 0 /\ b # a)
  ELSE a.hi < b.hi \/ (a.hi = b.hi /\ a.n * b.d < b.n * a.d)

\* a === b on primitives
StrictEquals(a, b) == a = b /\ ~(a.t = "number" /\ IsNaN(a))

Le(a, b) == Lt(a, b) \/ StrictEquals(a, b)

RECURSIVE Pow2(_)
Pow2(k) == IF k = 0 THEN 1 ELSE 2 * Pow2(k - 1)

\* ToInt32: the integer part modulo 2^32, as a signed 32-bit integer
ToInt32(a) ==
  IF a.d = 0 THEN 0
  ELSE IF a.hi = 0 THEN Sign(a.n) * (Abs(a.n) \div a.d)
  ELSE IF a.hi % 2 = 0 THEN a.n
  ELSE IF a.hi > 0 THEN (a.n - 2147483647) - 1
  ELSE IF a.n = 0 THEN (0 - 2147483647) - 1
  ELSE (a.n + 2147483647) + 1

\* the shift count of <<, >> and >>>: ToUint32(rhs) & 31
ShiftCount(b) == ToInt32(b) % 32

Bit(op, p, q) ==
  CASE op = "&" -> p * q
    [] op = "|" -> IF p + q > 0 THEN 1 ELSE 0
    [] op = "^" -> (p + q) % 2

RECURSIVE BitOp(_, _, _)
\* x op y on two's complement integers, bit by bit
BitOp(op, x, y) ==
  IF x \in {0, -1} /\ y \in {0, -1} THEN -Bit(op, -x, -y)
  ELSE 2 * BitOp(op, x \div 2, y \div 2) + Bit(op, x % 2, y % 2)

\* x << s on a 32-bit integer x: the bits shifted past bit 31 are lost and
\* bit 31 is the sign
Shl(x, s) ==
  IF s = 0 THEN x
  ELSE IF s = 31 THEN (IF x % 2 = 1 THEN (0 - 2147483647) - 1 ELSE 0)
  ELSE IF (x \div Pow2(31 - s)) % 2 = 1
  THEN ((x % Pow2(31 - s)) * Pow2(s) - 2147483647) - 1
  ELSE (x % Pow2(31 - s)) * Pow2(s)

\* x >> s: the sign is kept
Sar(x, s) == IF s = 31 THEN (IF x < 0 THEN -1 ELSE 0) ELSE x \div Pow2(s)

\* x >>> s: x is read as an unsigned 32-bit integer
Shr(x, s) ==
  IF x >= 0 THEN IntV(Sar(x, s))
  ELSE IF s = 0 THEN NumberV((x + 2147483647) + 1, 1, 1)
  ELSE IF s = 1 THEN IntV((Sar(x, 1) + 2147483647) + 1)
  ELSE IntV(Pow2(32 - s) + Sar(x, s))

-----------------------------------------------------------------------------
(* runtime.ts: the checks the compiled program calls.  A call returns a     *)
(* value or throws; an error is its class, its message template and the     *)
(* value the template interpolates.                                         *)

Return(v)        == [threw |-> FALSE, value |-> v]
Raise(text, arg) ==
  [threw |-> TRUE, class |-> "ElementaryRuntimeError", text |-> text, arg |-> arg]
NativeTypeError(text) ==
  [threw |-> TRUE, class |-> "TypeError", text |-> text, arg |-> Undefined]

\* elementaryJSBug(what): the message does not hold what
elementaryJSBug(what) ==
  Raise("You have encountered a potential bug in ElementaryJS. Please report "
          \o "this to the developers, along with the following stack trace:\n",
        Undefined)

\* index names an element the array has room for
InRange(object, index) ==
  /\ index.t = "number"
  /\ index.d = 1 /\ index.hi = 0
  /\ index.n >= 0 /\ index.n < Len(object.slots)

\* object[index]
Get(object, index) ==
  IF object.t = "array"
  THEN IF InRange(object, index) /\ object.slots[index.n + 1] # Hole
       THEN object.slots[index.n + 1]
       ELSE Undefined
  ELSE IF object.t = "object" /\ index.t = "string" /\ index.s \in DOMAIN object.props
  THEN object.props[index.s]
  ELSE Undefined

\* object[index] = v, on an element or property the object has
Set(object, index, v) ==
  IF object.t = "array"
  THEN [object EXCEPT !.slots[index.n + 1] = v]
  ELSE [object EXCEPT !.props[index.s] = v]

\* obj.hasOwnProperty(member)
hasOwnProperty(obj, member) ==
  IF obj.t = "array"
  THEN InRange(obj, member) /\ obj.slots[member.n + 1] # Hole
  ELSE obj.t = "object" /\ member.t = "string" /\ member.s \in DOMAIN obj.props

arrayBoundsCheck(object, index) ==
  IF object.t # "array"
  THEN Raise("array indexing called on a non-array value type", Undefined)
  ELSE IF \/ typeof(index) # "number"
          \/ Lt(index, IntV(0))
          \/ ~StrictEquals(Rem(index, IntV(1)), IntV(0))
  THEN Raise("array index '${index}' is not valid", index)
  ELSE IF StrictEquals(Get(object, index), Undefined)
  THEN Raise("index '${index}' is out of array bounds", index)
  ELSE Return(Get(object, index))

\* checkArray(o, k, v): [result, after], after being o as the call leaves it
checkArray(o, k, v) ==
  IF arrayBoundsCheck(o, k).threw
  THEN [result |-> arrayBoundsCheck(o, k), after |-> o]
  ELSE [result |-> Return(v), after |-> Set(o, k, v)]

\* stopifyArray that asks for no runner
stopifyArrayUnchecked(runner, array) == Return(array)

\* stopifyArray(array); the runner's stopifyArray hands back the array
stopifyArray(runner, array) ==
  IF runner = "undefined" THEN elementaryJSBug("Stopify not loaded")
  ELSE Return(array)

\* ArrayStub.create called with the arguments args: [result, after], after
\* being the array built (none: <<>>)
ArrayCreate(runner, args) ==
  IF Len(args) # 2
  THEN [result |-> Raise(".create expects 2 arguments, received ${arguments.length}",
                         IntV(Len(args))),
        after |-> <<>>]
  ELSE IF \/ typeof(args[1]) # "number"
          \/ ~StrictEquals(IntV(ToInt32(args[1])), args[1])
          \/ Le(args[1], IntV(0))
  THEN [result |-> Raise("array size must be a positive integer", Undefined),
        after |-> <<>>]
  ELSE [result |-> stopifyArray(runner, Arr([i \in 1..args[1].n |-> args[2]])),
        after |-> Arr([i \in 1..args[1].n |-> args[2]])]

\* A string that is split is the sequence of its characters: Str(<<"a", "b">>).

RECURSIVE SplitAt(_, _, _, _)
\* the pieces of chars between the occurrences of sep (not empty), given the
\* pieces found so far and the characters of the piece being read
SplitAt(chars, sep, piece, pieces) ==
  IF chars = <<>> THEN Append(pieces, Str(piece))
  ELSE IF Len(chars) >= Len(sep) /\ SubSeq(chars, 1, Len(sep)) = sep
  THEN SplitAt(SubSeq(chars, Len(sep) + 1, Len(chars)), sep, <<>>,
               Append(pieces, Str(piece)))
  ELSE SplitAt(Tail(chars), sep, Append(piece, Head(chars)), pieces)

\* str.split(sep): the elements of the array
Split(str, sep) ==
  IF sep.t = "undefined" THEN <<str>>
  ELSE IF sep.s = <<>> THEN [i \in 1..Len(str.s) |-> Str(<<str.s[i]>>)]
  ELSE SplitAt(str.s, sep.s, <<>>, <<>>)

\* the function stopifyStringSplit(str) returns
stopifyStringSplit(str) == [t |-> "function", name |-> "split", str |-> str]

\* that function called with sep, when the runner is runner
SplitCalled(runner, str, sep) == stopifyArray(runner, Arr(Split(str, sep)))

\* object[index] as dot reads it: the members of strings and arrays that
\* are not elements are their length and, for strings, split
GetMember(object, index) ==
  IF object.t = "string" /\ index = Str("split")
  THEN [t |-> "function", name |-> "String.prototype.split"]
  ELSE IF object.t = "string" /\ index = Str("length")
  THEN IntV(Len(object.s))
  ELSE IF object.t = "array" /\ index = Str("length")
  THEN IntV(Len(object.slots))
  ELSE IF object.t \in {"array", "object"} THEN Get(object, index)
  ELSE Undefined

dot(object, index) ==
  IF typeof(object) \notin {"object", "string", "boolean", "number"}
  THEN Raise("cannot access member of non-object value types", Undefined)
  ELSE IF object.t = "null"
  THEN NativeTypeError("Cannot read property of null")
  ELSE IF StrictEquals(GetMember(object, index), Undefined)
  THEN Raise("object does not have member '${index}'", index)
  ELSE IF typeof(object) = "string" /\ index = Str("split")
  THEN Return(stopifyStringSplit(object))
  ELSE Return(GetMember(object, index))

updateOnlyNumbers(opcode, object) ==
  IF typeof(object) # "number"
  THEN Raise("argument of operator '${opcode}' must be a number", Str(opcode))
  ELSE Return(Undefined)

\* checkUpdateOperand(opcode, obj, member): [result, after]
checkUpdateOperand(opcode, obj, member) ==
  IF obj.t \in {"undefined", "null"}
  THEN [result |-> NativeTypeError("Cannot read property 'hasOwnProperty' of "
                                     \o obj.t),
        after |-> obj]
  ELSE IF ~hasOwnProperty(obj, member)
  THEN [result |-> IF typeof(member) = "number"
                   THEN Raise("index '${member}' is out of array bounds", member)
                   ELSE Raise("object does not have member '${member}'", member),
        after |-> obj]
  ELSE IF typeof(Get(obj, member)) # "number"
  THEN [result |-> Raise("argument of operator '${opcode}' must be a number",
                         Str(opcode)),
        after |-> obj]
  ELSE IF opcode = "++"
  THEN [result |-> Return(Add(Get(obj, member), IntV(1))),
        after |-> Set(obj, member, Add(Get(obj, member), IntV(1)))]
  ELSE IF opcode = "--"
  THEN [result |-> Return(Sub(Get(obj, member), IntV(1))),
        after |-> Set(obj, member, Sub(Get(obj, member), IntV(1)))]
  ELSE [result |-> elementaryJSBug("UpdateOperand dynamic check"), after |-> obj]

applyNumOrStringOp(op, lhs, rhs) ==
  IF ~ \/ typeof(lhs) = "string" /\ typeof(rhs) = "string"
       \/ typeof(lhs) = "number" /\ typeof(rhs) = "number"
  THEN Raise("arguments of operator '${op}' must both be numbers or strings", Str(op))
  ELSE IF op = "+"
  THEN (IF typeof(lhs) = "string" THEN Return(Str(lhs.s \o rhs.s))
        ELSE Return(Add(lhs, rhs)))
  ELSE elementaryJSBug("applyNumOrStringOp")

\* applyBinaryBooleanOp checking its left operand only
applyBinaryBooleanOpLeftOnly(op, lhs, rhs) ==
  IF typeof(lhs) # "boolean"
  THEN Raise("arguments of operator '${op}' must both be booleans", Str(op))
  ELSE CASE op = "&&" -> Return(IF lhs.b THEN rhs ELSE lhs)
         [] op = "||" -> Return(IF lhs.b THEN lhs ELSE rhs)
         [] OTHER     -> elementaryJSBug("applyBinaryBooleanOp")

applyBinaryBooleanOp(op, lhs, rhs) ==
  IF typeof(lhs) # "boolean" \/ typeof(rhs) # "boolean"
  THEN Raise("arguments of operator '${op}' must both be booleans", Str(op))
  ELSE CASE op = "&&" -> Return(IF lhs.b THEN rhs ELSE lhs)
         [] op = "||" -> Return(IF lhs.b THEN lhs ELSE rhs)
         [] OTHER     -> elementaryJSBug("applyBinaryBooleanOp")

applyNumOp(op, lhs, rhs) ==
  IF ~(typeof(lhs) = "number" /\ typeof(rhs) = "number")
  THEN Raise("arguments of operator '${op}' must both be numbers", Str(op))
  ELSE CASE op = "-"   -> Return(Sub(lhs, rhs))
         [] op = "/"   -> Return(Div(lhs, rhs))
         [] op = "*"   -> Return(Mul(lhs, rhs))
         [] op = ">"   -> Return(Bool(Lt(rhs, lhs)))
         [] op = "<"   -> Return(Bool(Lt(lhs, rhs)))
         [] op = ">="  -> Return(Bool(Le(rhs, lhs)))
         [] op = "<="  -> Return(Bool(Le(lhs, rhs)))
         [] op = ">>"  -> Return(IntV(Sar(ToInt32(lhs), ShiftCount(rhs))))
         [] op = ">>>" -> Return(Shr(ToInt32(lhs), ShiftCount(rhs)))
         [] op = "<<"  -> Return(IntV(Shl(ToInt32(lhs), ShiftCount(rhs))))
         [] op = "|"   -> Return(IntV(BitOp("|", ToInt32(lhs), ToInt32(rhs))))
         [] op = "&"   -> Return(IntV(BitOp("&", ToInt32(lhs), ToInt32(rhs))))
         [] op = "^"   -> Return(IntV(BitOp("^", ToInt32(lhs), ToInt32(rhs))))
         [] op = "%"   -> Return(Rem(lhs, rhs))
         [] OTHER      -> elementaryJSBug("applyNumOp")

\* what runtime.ts exports, by name
Exports ==
  { "version", "ElementaryRuntimeError", "Array", "arrayBoundsCheck", "dot",
    "checkCall", "stopifyArray", "updateOnlyNumbers", "checkNumberAndReturn",
    "elementaryJSBug", "checkMember", "checkArray", "checkUpdateOperand",
    "applyNumOrStringOp", "applyBinaryBooleanOp", "applyNumOp", "arityCheck",
    "ElementaryTestingError", "getRunner", "setRunner", "enableTests", "assert",
    "test", "summary" }

\* the functions that switch on an operator given as a string
Dispatchers ==
  {"applyNumOrStringOp", "applyBinaryBooleanOp", "applyNumOp", "checkUpdateOperand"}

\* fn, given operands it accepts, does not take op to its default branch
Dispatches(fn, op) ==
  CASE fn = "applyNumOrStringOp" ->
         applyNumOrStringOp(op, IntV(1), IntV(1)) # elementaryJSBug(op)
    [] fn = "applyNumOp" -> applyNumOp(op, IntV(1), IntV(1)) # elementaryJSBug(op)
    [] fn = "applyBinaryBooleanOp" ->
         applyBinaryBooleanOp(op, Bool(TRUE), Bool(TRUE)) # elementaryJSBug(op)
    [] fn = "checkUpdateOperand" ->
         checkUpdateOperand(op, Arr(<<IntV(1)>>), IntV(0)).result # elementaryJSBug(op)

\* What the pass emits against what the runtime offers.

RECURSIVE RtsNames(_)
\* the member names tree t reads from the loader identifier: rts.<name>, and
\* rts.dot(rts, '<name>')
RtsNames(t) ==
  (IF t.type = "MemberExpression" /\ ~t.flag /\ t.kids[1] = Id("rts")
   THEN {t.kids[2].str}
   ELSE IF IsCheck(t, "dot") /\ t.kids[2] = Id("rts") THEN {t.kids[3].str}
   ELSE {})
    \cup UNION {RtsNames(t.kids[i]) : i \in 1..Len(t.kids)}

RECURSIVE OperatorsPassed(_)
\* the pairs <<function, operator>> of the calls rts.<function>('<operator>', ...)
OperatorsPassed(t) ==
  (IF /\ t.type = "CallExpression"
      /\ t.kids[1].type = "MemberExpression"
      /\ t.kids[1].kids[1] = Id("rts")
      /\ t.kids[1].kids[2].str \in Dispatchers
      /\ Len(t.kids) >= 2
   THEN {<<t.kids[1].kids[2].str, t.kids[2].str>>}
   ELSE {})
    \cup UNION {OperatorsPassed(t.kids[i]) : i \in 1..Len(t.kids)}

\* C14: after a successful compile every name the tree reads from rts is
\* exported by the runtime under that name, and every operator passed to a
\* dispatcher of the runtime is handled by a branch other than its default.
C14_EmittedNamesResolve ==
  (phase = "done" /\ outcome = "ok" /\ pass = 1) =>
    /\ RtsNames(Out) \subseteq Exports
    /\ \A c \in OperatorsPassed(Out) : Dispatches(c[1], c[2])

-----------------------------------------------------------------------------
(* Calls into the runtime, one at a time, on arguments of every class.      *)

MaxLen == 2        \* the longest array

Numbers ==
  { IntV(0), IntV(1), IntV(-1), IntV(3), NumberV(3, 2, 0), NaN, Infinity }
Strings  == { Str(""), Str("a"), Str("1") }
Booleans == { Bool(TRUE), Bool(FALSE) }
Records  == { Obj(<<>>), Obj([p |-> IntV(1)]), Obj([p |-> Str("a")]),
              Obj([p |-> Undefined]) }
Slots    == { IntV(1), Str("a"), Undefined, Hole }
Arrays   == UNION { {Arr(q) : q \in Seqs(Slots, n)} : n \in 0..MaxLen }

\* operands: every class of value
Operands == Numbers \cup Strings \cup Booleans \cup {Undefined, Null, Obj(<<>>), Arr(<<>>)}
\* what is indexed, and what it is indexed with
Indexed  == Arrays \cup {Obj([p |-> IntV(1)]), Str("a"), Undefined}
Indices  ==
  { IntV(0), IntV(1), IntV(2), IntV(-1), NumberV(1, 2, 0), NaN, Infinity,
    NumberV(0, 1, 1), Str("0"), Undefined }
Stored   == { IntV(3), Undefined, Str("a") }
\* array sizes: small integers, 2^31, 2^31 + 1, 2^32, and what is no size
Sizes ==
  { IntV(k) : k \in -1..MaxLen }
    \cup { NumberV(0, 1, 1), NumberV(1, 1, 1), NumberV(0, 1, 2),
           NumberV(3, 2, 0), NaN, Infinity, Str("2"), Undefined, Null }
CreateArguments ==
  {<<>>} \cup {<<n>> : n \in Sizes}
    \cup {<<n, v>> : n \in Sizes, v \in {IntV(0), Undefined}}
    \cup {<<n, IntV(0), IntV(0)>> : n \in Sizes}
UpdateOpcodes == {"++", "--", "+"}
Members == {Str("p"), Str("q"), IntV(0), IntV(1), IntV(2)}

InitRuntime ==
  /\ NoCompilation
  /\ NoCall
  /\ ModuleLoaded

\* the call fn(args) ends with r, leaving its object argument as o
Called(fn, args, r, o) ==
  /\ call' = [fn |-> fn, args |-> args]
  /\ result' = r
  /\ after' = o
  /\ UNCHANGED <<passVars, moduleVars>>

CallArrayBoundsCheck ==
  /\ call = <<>>
  /\ \E o \in Indexed, i \in Indices :
       Called("arrayBoundsCheck", <<o, i>>, arrayBoundsCheck(o, i), o)

CallCheckArray ==
  /\ call = <<>>
  /\ \E o \in Indexed, i \in Indices, v \in Stored :
       Called("checkArray", <<o, i, v>>, checkArray(o, i, v).result, checkArray(o, i, v).after)

CallCreate ==
  /\ call = <<>>
  /\ \E args \in CreateArguments :
       Called("create", args, ArrayCreate(stopifyRunner, args).result,
              ArrayCreate(stopifyRunner, args).after)

CallUpdateOnlyNumbers ==
  /\ call = <<>>
  /\ \E op \in UpdateOpcodes, v \in Operands :
       Called("updateOnlyNumbers", <<op, v>>, updateOnlyNumbers(op, v), v)

CallCheckUpdateOperand ==
  /\ call = <<>>
  /\ \E op \in UpdateOpcodes, o \in Arrays \cup Records \cup {Undefined, IntV(1)},
        m \in Members :
       Called("checkUpdateOperand", <<op, o, m>>, checkUpdateOperand(op, o, m).result,
              checkUpdateOperand(op, o, m).after)

CallApplyNumOrStringOp ==
  /\ call = <<>>
  /\ \E op \in SetOf(numOrStringOperators) \cup {"-"}, l \in Operands, r \in Operands :
       Called("applyNumOrStringOp", <<op, l, r>>, applyNumOrStringOp(op, l, r), <<>>)

CallApplyNumOp ==
  /\ call = <<>>
  /\ \E op \in SetOf(numOperators) \cup {"+"}, l \in Operands, r \in Operands :
       Called("applyNumOp", <<op, l, r>>, applyNumOp(op, l, r), <<>>)

CallApplyBinaryBooleanOp ==
  /\ call = <<>>
  /\ \E op \in {"&&", "||", "+"}, l \in Operands, r \in Operands :
       Called("applyBinaryBooleanOp", <<op, l, r>>, applyBinaryBooleanOp(op, l, r), <<>>)

\* strings as sequences of characters, and what they are split at
Texts      == { Str(<<>>), Str(<<"a">>), Str(<<"a", ",", "b">>), Str(<<",", "a", ",">>) }
Separators == { Str(<<",">>), Str(<<>>), Str(<<"a", ",">>), Undefined }
Receivers  ==
  Texts \cup Arrays \cup Records \cup {IntV(1), Bool(TRUE), Undefined, Null}
MemberNames == { Str("split"), Str("length"), Str("p"), Str("q") }

CallDot ==
  /\ call = <<>>
  /\ \E o \in Receivers, i \in MemberNames :
       Called("dot", <<o, i>>, dot(o, i), o)

\* dot(str, 'split')(sep)
CallSplit ==
  /\ call = <<>>
  /\ \E str \in Texts \cup {IntV(1)}, sep \in Separators :
       Called("split", <<str, sep>>,
              IF dot(str, Str("split")).threw THEN dot(str, Str("split"))
              ELSE SplitCalled(stopifyRunner, dot(str, Str("split")).value.str, sep),
              str)

\* the caller goes on
Returned ==
  /\ call # <<>>
  /\ call' = <<>>
  /\ result' = <<>>
  /\ after' = <<>>
  /\ UNCHANGED <<passVars, moduleVars>>

\* setRunner(runner)
SetRunner ==
  /\ call = <<>>
  /\ stopifyRunner' = "runner"
  /\ UNCHANGED <<passVars, callVars, tests, testsEnabled, timeoutMilli, pending>>

NextRuntime ==
  \/ CallArrayBoundsCheck \/ CallCheckArray \/ CallCreate
  \/ CallUpdateOnlyNumbers \/ CallCheckUpdateOperand
  \/ CallApplyNumOrStringOp \/ CallApplyNumOp \/ CallApplyBinaryBooleanOp
  \/ CallDot \/ CallSplit
  \/ Returned \/ SetRunner
SpecRuntime == InitRuntime /\ [][NextRuntime]_vars

-----------------------------------------------------------------------------
(* Properties of the runtime checks                                         *)

\* i is a non-negative integer number
IsIndex(i) ==
  /\ i.t = "number"
  /\ i.d = 1
  /\ i.hi > 0 \/ (i.hi = 0 /\ i.n >= 0)

\* slot i of array o has never been given a value
Unpopulated(o, i) == ~InRange(o, i) \/ o.slots[i.n + 1] = Hole

\* C5: arrayBoundsCheck(o, i) and checkArray(o, i, v) throw exactly when o is
\* no array, i is no non-negative integer or slot i of o is unpopulated;
\* otherwise the one returns o[i] and the other stores v at i and returns v.
\* A call that throws leaves o as it was, and no call changes o's length.
C5_IndexedAccessChecked ==
  (call # <<>> /\ call.fn \in {"arrayBoundsCheck", "checkArray"}) =>
    /\ result.threw <=>
         \/ call.args[1].t # "array"
         \/ ~IsIndex(call.args[2])
         \/ Unpopulated(call.args[1], call.args[2])
    /\ result.threw => after = call.args[1]
    /\ (~result.threw /\ call.fn = "arrayBoundsCheck") =>
         /\ result.value = call.args[1].slots[call.args[2].n + 1]
         /\ after = call.args[1]
    /\ (~result.threw /\ call.fn = "checkArray") =>
         /\ result.value = call.args[3]
         /\ after = Arr([call.args[1].slots EXCEPT ![call.args[2].n + 1] = call.args[3]])
    /\ call.args[1].t = "array" => Len(after.slots) = Len(call.args[1].slots)

\* n is a positive integer number
PositiveInteger(n) ==
  /\ n.t = "number"
  /\ n.d = 1
  /\ n.hi > 0 \/ (n.hi = 0 /\ n.n > 0)

\* C6: create throws, and builds no array, when it is given other than two
\* arguments or an n that is no positive integer; its length check rejects no
\* positive integer; and with a runner installed it throws in no other case.
C6_CreateRejectsOnlyBadArguments ==
  (call # <<>> /\ call.fn = "create") =>
    /\ (Len(call.args) # 2 \/ ~PositiveInteger(call.args[1])) =>
         (result.threw /\ after = <<>>)
    /\ (result.threw /\ result.text = "array size must be a positive integer") =>
         ~PositiveInteger(call.args[1])
    /\ (stopifyRunner # "undefined" /\ result.threw) =>
         (Len(call.args) # 2 \/ ~PositiveInteger(call.args[1]))

\* the operator op of JavaScript applied to two numbers, two strings or two
\* booleans
NativeOperator(op, l, r) ==
  CASE op = "+"   -> IF l.t = "string" THEN Str(l.s \o r.s) ELSE Add(l, r)
    [] op = "-"   -> Add(l, Neg(r))
    [] op = "*"   -> Mul(l, r)
    [] op = "/"   -> Div(l, r)
    [] op = "%"   -> Rem(l, r)
    [] op = "<"   -> Bool(Lt(l, r))
    [] op = ">"   -> Bool(Lt(r, l))
    [] op = "<="  -> Bool(Lt(l, r) \/ StrictEquals(l, r))
    [] op = ">="  -> Bool(Lt(r, l) \/ StrictEquals(l, r))
    [] op = "<<"  -> IntV(Shl(ToInt32(l), ShiftCount(r)))
    [] op = ">>"  -> IntV(Sar(ToInt32(l), ShiftCount(r)))
    [] op = ">>>" -> Shr(ToInt32(l), ShiftCount(r))
    [] op \in {"&", "|", "^"} -> IntV(BitOp(op, ToInt32(l), ToInt32(r)))
    [] op = "&&"  -> IF l.b THEN r ELSE l
    [] op = "||"  -> IF l.b THEN l ELSE r

\* the classes of operands function fn accepts, and the operators it computes
Accepts(fn, l, r) ==
  CASE fn = "applyNumOrStringOp" ->
         typeof(l) = typeof(r) /\ typeof(l) \in {"number", "string"}
    [] fn = "applyNumOp" -> typeof(l) = "number" /\ typeof(r) = "number"
    [] fn = "applyBinaryBooleanOp" -> typeof(l) = "boolean" /\ typeof(r) = "boolean"
Computes(fn) ==
  CASE fn = "applyNumOrStringOp" -> SetOf(numOrStringOperators)
    [] fn = "applyNumOp" -> SetOf(numOperators)
    [] fn = "applyBinaryBooleanOp" -> {"&&", "||"}

\* C7: a checked binary operator returns a result only for two numbers or two
\* strings (applyNumOrStringOp), two numbers (applyNumOp), two booleans
\* (applyBinaryBooleanOp); for operands of any other classes it throws and
\* yields no value; for operands it accepts the result is that of the native
\* operator.
C7_NoCoercion ==
  (call # <<>> /\ call.fn \in {"applyNumOrStringOp", "applyNumOp", "applyBinaryBooleanOp"}) =>
    /\ ~Accepts(call.fn, call.args[2], call.args[3]) =>
         (result.threw /\ "value" \notin DOMAIN result)
    /\ (Accepts(call.fn, call.args[2], call.args[3]) /\ call.args[1] \in Computes(call.fn)) =>
         /\ ~result.threw
         /\ result.value = NativeOperator(call.args[1], call.args[2], call.args[3])
    /\ ~result.threw => call.args[1] \in Computes(call.fn)

\* '1' + 1 is refused
C7_Witness ==
  /\ call # <<>>
  /\ call.fn = "applyNumOrStringOp"
  /\ call.args = <<"+", Str("1"), IntV(1)>>
  /\ result.threw

\* a create call whose arguments pass the checks of create (n below 2^31)
CreatesArray ==
  /\ call # <<>>
  /\ call.fn = "create"
  /\ Len(call.args) = 2
  /\ PositiveInteger(call.args[1])
  /\ call.args[1].hi = 0

\* a call of the function that dot gave for 'split' on a string
SplitsString == call # <<>> /\ call.fn = "split" /\ call.args[1].t = "string"

\* C11 (as stated): with no runner installed, create(n, v) with a positive
\* integer n returns an array of n slots that all hold v, and the split
\* obtained through dot on a string returns its array; neither throws.
C11_NoRunnerCallsSucceed ==
  stopifyRunner = "undefined" =>
    /\ CreatesArray =>
         /\ ~result.threw
         /\ result.value = Arr([i \in 1..call.args[1].n |-> call.args[2]])
    /\ SplitsString =>
         /\ ~result.threw
         /\ result.value = Arr(Split(call.args[1], call.args[2]))

\* C11 (amended): the calls that hand an array to the runner need it. With no
\* runner installed, create called with arguments that pass its checks and the
\* split obtained through dot on a string throw the internal-bug error and
\* return no array; with a runner installed the one returns an array of n
\* slots that all hold v and the other the array of the pieces.
C11_ArraysNeedTheRunner ==
  (CreatesArray \/ SplitsString) =>
    IF stopifyRunner = "undefined"
    THEN /\ result.threw
         /\ result.class = "ElementaryRuntimeError"
         /\ result = elementaryJSBug("Stopify not loaded")
         /\ "value" \notin DOMAIN result
    ELSE /\ ~result.threw
         /\ CreatesArray =>
              /\ Len(result.value.slots) = call.args[1].n
              /\ \A i \in 1..call.args[1].n : result.value.slots[i] = call.args[2]
         /\ SplitsString => result.value = Arr(Split(call.args[1], call.args[2]))

\* create(2, 0) and 'a,b'.split(',') asked for with no runner installed
C11_Witness ==
  /\ stopifyRunner = "undefined"
  /\ call # <<>>
  /\ \/ call.fn = "create" /\ call.args = <<IntV(2), IntV(0)>>
     \/ call.fn = "split" /\ call.args = <<Str(<<"a", ",", "b">>), Str(<<",">>)>>
  /\ result.threw

-----------------------------------------------------------------------------
(* runtime.ts: the test harness.  A message is the sequence of its words,   *)
(* and so is the text of a string a test body works with.                   *)

Text(words) == [t |-> "string", words |-> words]

\* String(val), in words
ToWords(val) ==
  IF val.t = "string" THEN val.words
  ELSE IF val.t = "number" THEN <<ToString(val.n)>>
  ELSE <<val.t>>

Thrown(class, message) == [threw |-> TRUE, class |-> class, message |-> message]

\* String.prototype.includes: phrase occurs in message, word for word
includes(message, phrase) ==
  \E i \in 0..(Len(message) - Len(phrase)) :
    SubSeq(message, i + 1, i + Len(phrase)) = phrase

\* assert(val)
assert(val) ==
  IF typeof(val) # "boolean"
  THEN Thrown("ElementaryTestingError",
              <<"assertion", "argument", "'">> \o ToWords(val)
                \o <<"'", "is", "not", "a", "boolean", "value">>)
  ELSE IF ~val.b
  THEN Thrown("ElementaryTestingError", <<"assertion", "failed">>)
  ELSE Return(Bool(TRUE))

\* A test body: it computes for ms milliseconds and ends with assert(arg).
RunBody(body) == assert(body.arg)

\* timeoutTest(testFunction, timeoutMilli): the body is run within the budget;
\* a body that needs longer is cut off by an Error that says so
timeoutTest(body, timeout) ==
  IF body.ms > timeout
  THEN Thrown("Error", <<"Script", "execution", "timed", "out", ".">>)
  ELSE RunBody(body)

\* the record test() pushes when no runner is installed
TestRecord(description, body, timeout) ==
  IF ~timeoutTest(body, timeout).threw
  THEN [failed |-> FALSE, description |-> description]
  ELSE IF includes(timeoutTest(body, timeout).message, <<"timed", "out">>)
  THEN [failed |-> TRUE, description |-> description, error |-> <<"Timed", "out">>]
  ELSE [failed |-> TRUE, description |-> description,
        error |-> timeoutTest(body, timeout).message]

RECURSIVE NumFailed(_)
NumFailed(ts) ==
  IF ts = <<>> THEN 0
  ELSE (IF Head(ts).failed THEN 1 ELSE 0) + NumFailed(Tail(ts))

\* one output line of summary for a record
ResultLine(r, styleMark) ==
  IF r.failed
  THEN [mark |-> styleMark, status |-> "FAILED", description |-> r.description,
        error |-> r.error]
  ELSE [mark |-> styleMark, status |-> "OK", description |-> r.description]

\* the last output line of summary
CountsLine(ts, styleMark) ==
  IF NumFailed(ts) > 0
  THEN [mark |-> styleMark, status |-> "Tests:", failed |-> NumFailed(ts),
        passed |-> Len(ts) - NumFailed(ts), total |-> Len(ts)]
  ELSE [mark |-> styleMark, status |-> "Tests:",
        passed |-> Len(ts) - NumFailed(ts), total |-> Len(ts)]

RECURSIVE ResultStyles(_)
ResultStyles(ts) ==
  IF ts = <<>> THEN <<>>
  ELSE (IF Head(ts).failed
        THEN <<"background-color: #f44336; font-weight: bold", "">>
        ELSE <<"background-color: #2ac093; font-weight: bold", "">>)
         \o ResultStyles(Tail(ts))

CountsStyles(ts) ==
  IF NumFailed(ts) > 0
  THEN <<"color: #f44336; font-weight: bold", "color: #2ac093; font-weight: bold",
         "font-weight: bold">>
  ELSE <<"color: #2ac093; font-weight: bold", "font-weight: bold">>

\* what summary(hasStyles) returns
summaryResult(enabled, ts, hasStyles) ==
  IF ~enabled
  THEN [output |-> <<[mark |-> "", status |-> "Test not enabled"]>>, style |-> <<>>]
  ELSE IF Len(ts) = 0
  THEN [output |-> <<[mark |-> IF hasStyles THEN "%c" ELSE "",
                      status |-> "You don't seem to have any tests written"]>>,
        style |-> IF hasStyles THEN <<"color: #e87ce8">> ELSE <<>>]
  ELSE [output |-> [i \in 1..Len(ts) |->
                      ResultLine(ts[i], IF hasStyles THEN "%c" ELSE "")]
                     \o <<CountsLine(ts, IF hasStyles THEN "%c" ELSE "")>>,
        style |-> IF hasStyles THEN ResultStyles(ts) \o CountsStyles(ts) ELSE <<>>]

DefaultTimeout == 3000      \* enableTests(enable, timeout = 3000)

\* enableTests(enable, timeout): the harness state it leaves
enableTests(enable, timeout) ==
  [testsEnabled |-> enable, tests |-> <<>>, timeoutMilli |-> timeout]

\* summary(hasStyles) that does not end the session
summaryKeepsSession(enabled, ts, timeout, hasStyles) ==
  [result |-> summaryResult(enabled, ts, hasStyles),
   state  |-> [testsEnabled |-> enabled, tests |-> ts, timeoutMilli |-> timeout]]

\* summary(hasStyles) in harness state (enabled, ts, timeout): what it returns
\* and the harness state it leaves
summary(enabled, ts, timeout, hasStyles) ==
  [result |-> summaryResult(enabled, ts, hasStyles),
   state  |-> IF ~enabled
              THEN [testsEnabled |-> enabled, tests |-> ts, timeoutMilli |-> timeout]
              ELSE enableTests(FALSE, DefaultTimeout)]

-----------------------------------------------------------------------------
(* Sessions of the test harness.                                            *)

MaxTests == 2       \* the most records a session gathers

Timeouts        == {DefaultTimeout, 1}
Durations       == {2, 5000}
Descriptions    == {"t1", "t2"}
AssertArguments == {Bool(TRUE), Bool(FALSE), Text(<<"timed", "out">>), Text(<<"x">>)}
Bodies          == {[ms |-> m, arg |-> a] : m \in Durations, a \in AssertArguments}

InitHarness ==
  /\ NoCompilation
  /\ NoCall
  /\ ModuleLoaded

\* the tests handed to the runner before a call of enableTests or summary are
\* from then on tests of an earlier session
Outdated(ps) == [i \in 1..Len(ps) |-> [ps[i] EXCEPT !.stale = TRUE]]

\* what test() returns, and whether it ran the body
TestReturn(ran) == [threw |-> FALSE, value |-> Undefined, ran |-> ran]

EnableTests ==
  /\ call = <<>>
  /\ \E enable \in BOOLEAN, timeout \in Timeouts :
       /\ call' = [fn |-> "enableTests", args |-> <<enable, timeout>>]
       /\ testsEnabled' = enableTests(enable, timeout).testsEnabled
       /\ tests' = enableTests(enable, timeout).tests
       /\ timeoutMilli' = enableTests(enable, timeout).timeoutMilli
  /\ result' = Return(Undefined)
  /\ after' = <<>>
  /\ pending' = Outdated(pending)
  /\ UNCHANGED <<passVars, stopifyRunner>>

\* test(description, testFunction)
Test ==
  /\ call = <<>>
  /\ testsEnabled => Len(tests) + Len(pending) < MaxTests
  /\ \E description \in Descriptions, body \in Bodies :
       /\ call' = [fn |-> "test", args |-> <<description, body>>]
       /\ IF ~testsEnabled
          THEN /\ result' = TestReturn(FALSE)
               /\ UNCHANGED <<tests, pending>>
          ELSE IF stopifyRunner # "undefined"
          THEN /\ pending' = Append(pending, [description |-> description, body |-> body,
                                              stale |-> FALSE])
               /\ result' = TestReturn(FALSE)
               /\ UNCHANGED tests
          ELSE /\ tests' = Append(tests, TestRecord(description, body, timeoutMilli))
               /\ result' = TestReturn(TRUE)
               /\ UNCHANGED pending
  /\ after' = <<>>
  /\ UNCHANGED <<passVars, stopifyRunner, testsEnabled, timeoutMilli>>

\* summary(hasStyles)
Summary ==
  /\ call = <<>>
  /\ \E hasStyles \in BOOLEAN :
       /\ call' = [fn |-> "summary", args |-> <<hasStyles>>]
       /\ result' = Return(summary(testsEnabled, tests, timeoutMilli, hasStyles).result)
       /\ testsEnabled' = summary(testsEnabled, tests, timeoutMilli, hasStyles).state.testsEnabled
       /\ tests' = summary(testsEnabled, tests, timeoutMilli, hasStyles).state.tests
       /\ timeoutMilli' = summary(testsEnabled, tests, timeoutMilli, hasStyles).state.timeoutMilli
  /\ after' = <<>>
  /\ pending' = Outdated(pending)
  /\ UNCHANGED <<passVars, stopifyRunner>>

NextHarness == EnableTests \/ Test \/ Summary \/ Returned
SpecHarness == InitHarness /\ [][NextHarness]_vars

-----------------------------------------------------------------------------
(* Sessions of the test harness with a runner: test() hands the body to the *)
(* runner and returns; the runner calls back when the body has ended.       *)

\* the record the callback given to runStopifiedCode pushes
RunnerRecord(description, body) ==
  IF ~RunBody(body).threw
  THEN [failed |-> FALSE, description |-> description]
  ELSE [failed |-> TRUE, description |-> description,
        error |-> [class |-> RunBody(body).class, message |-> RunBody(body).message]]

\* ps without its i-th element
Without(ps, i) == SubSeq(ps, 1, i - 1) \o SubSeq(ps, i + 1, Len(ps))

\* the runner calls back for one of the tests it was handed
Complete ==
  /\ call = <<>>
  /\ \E i \in 1..Len(pending) :
       /\ call' = [fn |-> "complete", args |-> <<pending[i]>>]
       /\ tests' = Append(tests, RunnerRecord(pending[i].description, pending[i].body))
       /\ pending' = Without(pending, i)
  /\ result' = Return(Undefined)
  /\ after' = <<>>
  /\ UNCHANGED <<passVars, stopifyRunner, testsEnabled, timeoutMilli>>

NextRunner == SetRunner \/ EnableTests \/ Test \/ Summary \/ Complete \/ Returned
SpecRunner == InitHarness /\ [][NextRunner]_vars

-----------------------------------------------------------------------------
(* Properties of the test harness                                           *)

\* a step that is a call of fn
Calls(fn) == call = <<>> /\ call' # <<>> /\ call'.fn = fn

\* how many of the lines are about a record that failed
RECURSIVE FailedLines(_)
FailedLines(lines) ==
  IF lines = <<>> THEN 0
  ELSE (IF Head(lines).status = "FAILED" THEN 1 ELSE 0) + FailedLines(Tail(lines))

\* the report tells of the records ts, one line each and in their order, and
\* counts them
Reports(r, ts) ==
  /\ Len(r.output) = Len(ts) + 1
  /\ \A i \in 1..Len(ts) :
       /\ r.output[i].description = ts[i].description
       /\ r.output[i].status = (IF ts[i].failed THEN "FAILED" ELSE "OK")
  /\ r.output[Len(ts) + 1].status = "Tests:"
  /\ r.output[Len(ts) + 1].total = Len(ts)
  /\ r.output[Len(ts) + 1].passed
       = Len(ts) - FailedLines(SubSeq(r.output, 1, Len(ts)))
  /\ FailedLines(SubSeq(r.output, 1, Len(ts))) > 0 =>
       r.output[Len(ts) + 1].failed = FailedLines(SubSeq(r.output, 1, Len(ts)))

\* C8: with no runner installed, enableTests empties the records; test while
\* testing is disabled changes nothing of the harness and does not run the
\* body; summary while testing is enabled reports the records gathered since
\* (passed + failed = their number) and leaves the harness disabled without
\* records; summary while testing is disabled says that it is not enabled.
C8_SessionsAreConsumedOnce ==
  [][ /\ Calls("enableTests") => tests' = <<>>
      /\ (Calls("test") /\ ~testsEnabled) =>
           (UNCHANGED moduleVars /\ ~result'.ran)
      /\ (Calls("summary") /\ testsEnabled) =>
           /\ Len(tests) > 0 => Reports(result'.value, tests)
           /\ result'.value.output[1].status # "Test not enabled"
           /\ ~testsEnabled'
           /\ tests' = <<>>
      /\ (Calls("summary") /\ ~testsEnabled) =>
           /\ result'.value.output = <<[mark |-> "", status |-> "Test not enabled"]>>
           /\ UNCHANGED moduleVars
    ]_vars

\* a summary of two records, one of them failed, has ended the session
C8_Witness ==
  /\ call # <<>>
  /\ call.fn = "summary"
  /\ Len(result.value.output) = 3
  /\ result.value.output[3].status = "Tests:"
  /\ "failed" \in DOMAIN result.value.output[3]
  /\ result.value.output[3].passed = 1
  /\ ~testsEnabled
  /\ tests = <<>>

\* C9: with testing enabled and no runner, test() throws nothing and appends
\* one record after those there are: a passing one if the body returns, a
\* failed one with the error's message if the body throws, and the failed
\* record 'Timed out' if and only if the body ran longer than the timeout.
C9_OneRecordPerTest ==
  [][ (Calls("test") /\ testsEnabled /\ stopifyRunner = "undefined") =>
        /\ ~result'.threw
        /\ Len(tests') = Len(tests) + 1
        /\ SubSeq(tests', 1, Len(tests)) = tests
        /\ tests'[Len(tests')].description = call'.args[1]
        /\ (tests'[Len(tests')].failed /\ tests'[Len(tests')].error = <<"Timed", "out">>)
             <=> call'.args[2].ms > timeoutMilli
        /\ (call'.args[2].ms <= timeoutMilli /\ ~RunBody(call'.args[2]).threw) =>
             ~tests'[Len(tests')].failed
        /\ (call'.args[2].ms <= timeoutMilli /\ RunBody(call'.args[2]).threw) =>
             /\ tests'[Len(tests')].failed
             /\ tests'[Len(tests')].error = RunBody(call'.args[2]).message
    ]_vars

\* C16: with a runner, the records are empty in every state where testing is
\* disabled, and the runner's callback appends a record only while testing is
\* enabled and only for a test that was registered after the last call of
\* enableTests or summary.
C16_RecordsOnlyWhileEnabled ==
  [][ /\ ~testsEnabled' => tests' = <<>>
      /\ Calls("complete") => (testsEnabled /\ ~call'.args[1].stale)
    ]_vars

=============================================================================
